---- MODULE Spec2Model ----
(***************************************************************************)
(* Model of utils/paramfetch/src/lib.rs: the proof-parameter cache.        *)
(* get_params creates the cache directory, parses and filters the          *)
(* manifest, spawns one fetch_verify_params task per selected entry,       *)
(* joins every task and aggregates.  Strings the code inspects are         *)
(* sequences of one-character strings; Option values are sequences of      *)
(* length 0 (None) or 1 (Some).                                            *)
(***************************************************************************)
EXTENDS Integers, Sequences, FiniteSets, Bags, TLC

\* ------------------------------------------------------------ bounds ----
\* the elapsed-time budget of ExponentialBackoff::default(), in ticks of the
\* clock the backoff reads
MaxElapsed == 1
\* number of successive get_params invocations
MaxRuns == 2
\* number of calls of set_proofs_parameter_cache_dir_env that are traced
MaxCalls == 2

\* ------------------------------------------------- program constants ----
\* output size of Blake2b::new(), in bytes
HashLen == 64
\* &str_sum[..32]
DigestLen == 32
PARAM_DIR == <<"filecoin-proof-parameters">>

None == <<>>
Some(x) == <<x>>

\* --------------------------------------------------------- strings ------
\* str::ends_with
EndsWith(s, suffix) ==
    /\ Len(suffix) <= Len(s)
    /\ SubSeq(s, Len(s) - Len(suffix) + 1, Len(s)) = suffix

ParamsSuffix == <<"p", "a", "r", "a", "m", "s">>
DotParamsSuffix == <<".", "p", "a", "r", "a", "m", "s">>

AVk == <<"a", ".", "v", "k">>
BParams == <<"b", ".", "p", "a", "r", "a", "m", "s">>
CParams == <<"c", "p", "a", "r", "a", "m", "s">>
Names == {AVk, BParams, CParams}

\* --------------------------------------------------------- contents -----
Bytes == {0, 1}
\* the file bodies: empty, or one byte
Contents == {<<>>} \cup {<<b>> : b \in Bytes}
\* a path of the cache directory: no file, or a file and its bytes
Absent == [present |-> FALSE, data |-> <<>>]
File(c) == [present |-> TRUE, data |-> c]
Files == {Absent} \cup {File(c) : c \in Contents}

RECURSIVE Code(_)
Code(c) == IF c = <<>> THEN 1 ELSE 2 * Code(SubSeq(c, 1, Len(c) - 1)) + c[Len(c)]

\* the Blake2b state fed with the whole file: HashLen bytes, distinct for
\* distinct contents
Blake2b(c) == [i \in 1..HashLen |-> (Code(c) * 37 + i * 11) % 256]

HexDigits == <<"0", "1", "2", "3", "4", "5", "6", "7",
               "8", "9", "a", "b", "c", "d", "e", "f">>

\* Hash::to_hex: two lower-case digits per byte
ToHex(bytes) ==
    [i \in 1..(2 * Len(bytes)) |->
        IF i % 2 = 1 THEN HexDigits[(bytes[(i + 1) \div 2] \div 16) + 1]
                     ELSE HexDigits[(bytes[i \div 2] % 16) + 1]]

\* the contents the manifest describes
Good(name) == IF name = BParams THEN <<0>> ELSE <<1>>

\* its digest field: 32 hex characters
ManifestDigest(name) == SubSeq(ToHex(Blake2b(Good(name))), 1, 32)

\* ParameterData
Entry(name, size) == [cid |-> name, digest |-> ManifestDigest(name), sector_size |-> size]

\* ------------------------------------------------------- check_file -----
\* &hash.to_hex()[..32] of the bytes of a file
StrSum(data) == SubSeq(ToHex(Blake2b(data)), 1, DigestLen)

\* check_file comparing the whole hex digest with the manifest's
CheckFileFullHex(trust, file, info) ==
    IF trust = Some("1")
    THEN [ok |-> TRUE, kind |-> "none", warned |-> TRUE, hashed |-> FALSE]
    ELSE IF ~file.present
    THEN [ok |-> FALSE, kind |-> "NotFound", warned |-> FALSE, hashed |-> FALSE]
    ELSE IF ToHex(Blake2b(file.data)) = info.digest
    THEN [ok |-> TRUE, kind |-> "none", warned |-> FALSE, hashed |-> TRUE]
    ELSE [ok |-> FALSE, kind |-> "Other", warned |-> FALSE, hashed |-> TRUE]

\* check_file accepting every file that can be opened
CheckFileExists(trust, file, info) ==
    IF trust = Some("1")
    THEN [ok |-> TRUE, kind |-> "none", warned |-> TRUE, hashed |-> FALSE]
    ELSE IF ~file.present
    THEN [ok |-> FALSE, kind |-> "NotFound", warned |-> FALSE, hashed |-> FALSE]
    ELSE [ok |-> TRUE, kind |-> "none", warned |-> FALSE, hashed |-> FALSE]

\* check_file bypassing whenever TRUST_PARAMS is set, whatever its value
CheckFileAnySet(trust, file, info) ==
    IF trust # None
    THEN [ok |-> TRUE, kind |-> "none", warned |-> TRUE, hashed |-> FALSE]
    ELSE IF ~file.present
    THEN [ok |-> FALSE, kind |-> "NotFound", warned |-> FALSE, hashed |-> FALSE]
    ELSE IF SubSeq(ToHex(Blake2b(file.data)), 1, DigestLen) = info.digest
    THEN [ok |-> TRUE, kind |-> "none", warned |-> FALSE, hashed |-> TRUE]
    ELSE [ok |-> FALSE, kind |-> "Other", warned |-> FALSE, hashed |-> TRUE]

\* check_file on a file that is Absent or holds a content: the result, the
\* ErrorKind of a failure, whether the bypass warning was logged and whether
\* the digest was computed
CheckFile(trust, file, info) ==
    IF trust = Some("1")
    THEN [ok |-> TRUE, kind |-> "none", warned |-> TRUE, hashed |-> FALSE]
    ELSE IF ~file.present
    THEN [ok |-> FALSE, kind |-> "NotFound", warned |-> FALSE, hashed |-> FALSE]
    ELSE IF StrSum(file.data) = info.digest
    THEN [ok |-> TRUE, kind |-> "none", warned |-> FALSE, hashed |-> TRUE]
    ELSE [ok |-> FALSE, kind |-> "Other", warned |-> FALSE, hashed |-> TRUE]

\* ----------------------------------------------------------- filter -----
\* SectorSizeOpt
All == [opt |-> "All"]
Keys == [opt |-> "Keys"]
Size(n) == [opt |-> "Size", size |-> n]

\* the filter with && in the Size arm
FilterAnd(storage_size, name, info) ==
    CASE storage_size.opt = "Keys" -> ~EndsWith(name, ParamsSuffix)
      [] storage_size.opt = "Size" ->
            storage_size.size = info.sector_size /\ ~EndsWith(name, DotParamsSuffix)
      [] OTHER -> TRUE

\* the closure of .filter(..) in get_params
Filter(storage_size, name, info) ==
    CASE storage_size.opt = "Keys" -> ~EndsWith(name, ParamsSuffix)
      [] storage_size.opt = "Size" ->
            storage_size.size = info.sector_size \/ ~EndsWith(name, DotParamsSuffix)
      [] OTHER -> TRUE

Selected(params, storage_size) ==
    {n \in DOMAIN params : Filter(storage_size, n, params[n])}

\* ------------------------------------------------------- param_dir ------
DataDir == <<"data">>
OverrideDir == <<"cache">>
DefaultDir == DataDir \o PARAM_DIR
Dirs == {DefaultDir, OverrideDir}

\* a value of the variable that is not valid Unicode ("?" stands for a byte
\* that is no UTF-8)
NonUnicode == <<"ca?">>

\* std::env::var: Err(NotPresent) when the variable is unset, Err(NotUnicode)
\* when its value is not valid Unicode, Ok(value) otherwise
EnvVar(env) ==
    IF env = None THEN [ok |-> FALSE, err |-> "NotPresent", value |-> <<>>]
    ELSE IF env[1] = NonUnicode THEN [ok |-> FALSE, err |-> "NotUnicode", value |-> <<>>]
    ELSE [ok |-> TRUE, err |-> "none", value |-> env[1]]

\* param_dir: the value of the variable, and the default for every error of
\* std::env::var
ParamDir(env, data_dir) ==
    IF EnvVar(env).ok THEN EnvVar(env).value ELSE data_dir \o PARAM_DIR


\* ------------------------------------------------- fetch_params_inner ---
OptLens == {None} \cup {Some(Len(c)) : c \in Contents}

\* what the gateway does to the request of one attempt: the request fails,
\* the status is not a success, or a response with a success status declares
\* a content length or none
RequestOutcomes ==
    {[fail |-> f, content_len |-> None] : f \in {"request", "status"}}
    \cup {[fail |-> "none", content_len |-> l] : l \in OptLens}

\* what the filesystem does to File::create
CreateOutcomes == {"create", "none"}

\* how tokio::io::copy and fs::metadata end: the step that fails (the copy
\* on reading the response or on writing the file, fs::metadata) or "none"
CopyOutcomes == {"read", "write", "metadata", "none"}

\* the file after a write of data at offset at through an open handle
WriteAt(file, at, data) ==
    IF ~file.present THEN file
    ELSE File([i \in 1..at |-> IF i <= Len(file.data) THEN file.data[i] ELSE 0]
              \o data
              \o SubSeq(file.data, at + Len(data) + 1, Len(file.data)))

\* the bytes of the body that can arrive next when the attempt has written
\* at bytes
Arriving(at) == {SubSeq(c, at + 1, Len(c)) : c \in {x \in Contents : Len(x) > at}}

\* tokio::io::copy has written the bytes that arrived and waits for more (it
\* flushes the writer when the reader is pending): the bytes go to the offset
\* of the handle File::create returned, the number of bytes the attempt has
\* written, whatever the file holds there
CopyPending(file, at) ==
    {[file |-> WriteAt(file, at, d), written |-> at + Len(d)] : d \in Arriving(at)}

\* the writes a copy that ends with a read error can leave behind:
\* tokio::fs::File::poll_write hands the bytes to a blocking thread and
\* returns; the copy returns the error without waiting for the thread
Abandoned(dir, at) == {[dir |-> dir, at |-> at, data |-> d] : d \in Arriving(at)}

\* a fetch_params_inner that creates the file before it sends the request
FetchParamsInnerRequestCreated(file, o) ==
    IF o.fail \in {"request", "status"}
    THEN [ok |-> FALSE, kind |-> o.fail, file |-> File(<<>>), len |-> None]
    ELSE [ok |-> TRUE, kind |-> "none", file |-> file, len |-> o.content_len]

\* fetch_params_inner up to the response: client.get(url).await?, the
\* ensure! on the status, response.len(); the target file is not touched
FetchParamsInnerRequest(file, o) ==
    IF o.fail \in {"request", "status"}
    THEN [ok |-> FALSE, kind |-> o.fail, file |-> file, len |-> None]
    ELSE [ok |-> TRUE, kind |-> "none", file |-> file, len |-> o.content_len]

\* File::create(path).await?: the target is created or truncated, in a
\* directory that exists
FetchParamsInnerCreate(file, dirExists, o) ==
    IF o = "create" \/ ~dirExists
    THEN [ok |-> FALSE, kind |-> "create", file |-> file]
    ELSE [ok |-> TRUE, kind |-> "none", file |-> File(<<>>)]

\* the end of fetch_params_inner, the file holding the bytes the copy wrote:
\* the copy returns, then fs::metadata and the ensure! that compares the
\* length of the file with the declared one
FetchParamsInnerCopy(file, content_len, o) ==
    IF o \in {"read", "write", "metadata"}
    THEN [ok |-> FALSE, kind |-> o, file |-> file]
    ELSE IF Some(Len(file.data)) # content_len
    THEN [ok |-> FALSE, kind |-> "length", file |-> file]
    ELSE [ok |-> TRUE, kind |-> "none", file |-> file]

\* the failures of the local filesystem
FsKinds == {"create", "write", "metadata"}

\* the conversion done by `?` in the retried closure: From<E> for
\* backoff::Error<E> makes every error transient
IsTransient(kind) == TRUE

\* ExponentialBackoff::next_backoff: None once the budget is spent
NextBackoff(elapsed) == elapsed <= MaxElapsed

\* a counter after one more step; past the budget the values are not told
\* apart
Tick(t) == IF t > MaxElapsed THEN t ELSE t + 1

\* the readings of the backoff's clock after an attempt that started at t and
\* failed: an attempt has no time limit, so any later reading
Later(t) == {Tick(t)} \cup ((t + 1)..(MaxElapsed + 1))

\* backoff::future::retry after a failed attempt, the clock reading e: sleep
\* and call the closure again, or return the error
Retry(u, kind, e) ==
    IF IsTransient(kind) /\ NextBackoff(e)
    THEN [u EXCEPT !.pc = "fetching", !.elapsed = e, !.lastErr = kind,
                   !.declared = IF kind = "length" THEN @ ELSE None, !.written = 0]
    ELSE [u EXCEPT !.pc = "err", !.elapsed = e, !.lastErr = "none", !.cause = kind,
                   !.declared = None, !.written = 0]

\* ------------------------------------------------------- get_params -----
\* JoinHandle::await of a finished task: the task did not panic, so the
\* outer result is Ok and the task's own result is the value inside
TaskJoin(name, u) ==
    [join |-> "Ok", name |-> name,
     value |-> IF u.pc = "ok" THEN "Ok" ELSE "Err", cause |-> u.cause]

\* if let Err(err) = t.await { errors.push(err) }
Collect(errs, r) ==
    IF r.join = "Err" THEN Append(errs, [name |-> r.name, cause |-> "join"]) ELSE errs

\* a loop that returns at the first failed task
LoopEndsOnError(i, n, r) == i = n \/ r.value = "Err"

\* the for loop over tasks ends after the last handle, whatever the results
LoopEnds(i, n, r) == i = n

\* create_dir_all with its error dropped
CreateDirAllIgnored(existing, d, can) ==
    [ok |-> TRUE, dirs |-> IF can THEN existing \cup {d} ELSE existing]

\* fs::create_dir_all on a filesystem that lets directories be created or not
CreateDirAll(existing, d, can) ==
    IF d \in existing \/ can THEN [ok |-> TRUE, dirs |-> existing \cup {d}]
    ELSE [ok |-> FALSE, dirs |-> existing]

\* the final if/else of get_params
Finish(errs) == IF errs = <<>> THEN "Ok" ELSE "Aggregated"

\* the orders in which HashMap::into_iter may yield the entries
Orders(S) ==
    {s \in [1..Cardinality(S) -> S] : \A i, j \in 1..Cardinality(S) : s[i] = s[j] => i = j}

\* ------------------------------------------------------------ state -----
VARIABLES
    dirEnv,        \* FIL_PROOFS_PARAMETER_CACHE: None or Some(path)
    trustEnv,      \* TRUST_PARAMS: None or Some(string)
    dirs,          \* the directories that exist
    files,         \* files[dir][name]: Absent or the content
    canCreate,     \* whether the filesystem lets directories be created
    paramJson,     \* the manifest text: malformed, or the map it parses to
    storageSize,   \* the SectorSizeOpt of the caller
    mainPc,        \* where get_params is
    tasks,         \* the JoinHandles, in spawn order (entry names)
    joinIdx,       \* the task get_params awaits next
    errors,        \* the errors vector
    result,        \* what get_params returned
    unit,          \* the fetch_verify_params task of each entry
    run,           \* which invocation of get_params this is
    prev,          \* the outcome of the invocation before
    filesAtStart,  \* files when this invocation started
    mainDir,       \* the directory get_params resolved and created
    inflight,      \* per entry: the bag of writes that failed copies handed to
                   \* the blocking threads of tokio::fs::File and did not
                   \* wait for
    setter,        \* the value set_proofs_parameter_cache_dir_env has read from
                   \* param_dir and not yet written, or None
    envLog         \* when tracing is on: FIL_PROOFS_PARAMETER_CACHE when the
                   \* process started and after each traced call of
                   \* set_proofs_parameter_cache_dir_env

vars == <<dirEnv, trustEnv, dirs, files, canCreate, paramJson, storageSize, mainPc,
          tasks, joinIdx, errors, result, unit, run, prev, filesAtStart, mainDir,
          inflight, setter, envLog>>

envVars == <<dirEnv, trustEnv, canCreate, paramJson, storageSize>>
mainVars == <<mainPc, tasks, joinIdx, errors, result, mainDir>>
runVars == <<run, prev, filesAtStart>>
setterVars == <<setter, envLog>>

NoCheck == [ok |-> FALSE, kind |-> "none", warned |-> FALSE, hashed |-> FALSE]

IdleUnit ==
    [pc |-> "idle", dir |-> <<>>, elapsed |-> 0, reqs |-> 0, checks |-> 0,
     lastErr |-> "none", cause |-> "none", check |-> NoCheck, declared |-> None,
     written |-> 0]

Malformed == [ok |-> FALSE, map |-> <<>>]
Parsed(m) == [ok |-> TRUE, map |-> m]

ExampleManifest == (AVk :> Entry(AVk, 0)) @@ (BParams :> Entry(BParams, 512))

Policies == {All, Keys, Size(512), Size(1024)}

\* a file whose digest differs from the manifest's
Bad(name) == IF name = BParams THEN <<1>> ELSE <<0>>

InitFiles(name) == {Absent, File(Good(name)), File(Bad(name))}

NoFiles == [d \in Dirs |-> [n \in Names |-> Absent]]

NoPrev == [result |-> "none", unitsOk |-> FALSE, causes |-> [n \in Names |-> "none"]]

NoDir == <<>>

NoLog == [on |-> FALSE, init |-> None, vals |-> <<>>]

InitCommon ==
    /\ mainPc = "start"
    /\ tasks = <<>>
    /\ joinIdx = 1
    /\ errors = <<>>
    /\ result = "none"
    /\ unit = [n \in Names |-> IdleUnit]
    /\ run = 1
    /\ prev = NoPrev
    /\ filesAtStart = files
    /\ mainDir = NoDir
    /\ setter = None
    /\ inflight = [n \in Names |-> EmptyBag]

Init ==
    /\ dirEnv = None
    /\ trustEnv \in {None, Some("1"), Some("true")}
    /\ paramJson \in {Malformed, Parsed(ExampleManifest)}
    /\ storageSize \in {Size(512), Size(1024)}
    /\ dirs \in {{}, {ParamDir(dirEnv, DataDir)}}
    /\ canCreate \in (IF dirs = {} THEN BOOLEAN ELSE {TRUE})
    /\ \E fs \in [DOMAIN paramJson.map -> Files] :
          /\ \A n \in DOMAIN fs : fs[n] \in InitFiles(n)
          /\ dirs = {} => \A n \in DOMAIN fs : fs[n] = Absent
          /\ files = [NoFiles EXCEPT ![ParamDir(dirEnv, DataDir)] =
                        [n \in Names |-> IF n \in DOMAIN fs THEN fs[n] ELSE Absent]]
    /\ envLog = NoLog
    /\ InitCommon

\* ---------------------------------------------------------- actions -----
\* set_proofs_parameter_cache_dir_env(data_dir), its argument: param_dir
\* reads the variable
SetProofsParameterCacheDirEnvRead ==
    /\ setter = None
    /\ setter' = Some(ParamDir(dirEnv, DataDir))
    /\ UNCHANGED <<envVars, dirs, files, mainVars, unit, runVars, envLog, inflight>>

\* set_proofs_parameter_cache_dir_env(data_dir), its call of std::env::set_var
\* with the path read before
SetProofsParameterCacheDirEnvWrite ==
    /\ setter # None
    /\ dirEnv' = Some(setter[1])
    /\ setter' = None
    /\ envLog' = IF envLog.on /\ Len(envLog.vals) < MaxCalls
                 THEN [envLog EXCEPT !.vals = Append(@, dirEnv')] ELSE envLog
    /\ UNCHANGED <<trustEnv, dirs, files, canCreate, paramJson, storageSize,
                   mainVars, unit, runVars, inflight>>

\* a get_params that exports the directory it resolved
GetParamsCreateDirExport ==
    /\ mainPc = "start"
    /\ LET c == CreateDirAll(dirs, ParamDir(dirEnv, DataDir), canCreate) IN
         /\ dirs' = c.dirs
         /\ IF c.ok THEN mainPc' = "parse" /\ result' = result
            ELSE mainPc' = "returned" /\ result' = "DirError"
    /\ mainDir' = ParamDir(dirEnv, DataDir)
    /\ dirEnv' = Some(ParamDir(dirEnv, DataDir))
    /\ UNCHANGED <<trustEnv, canCreate, paramJson, storageSize, files, tasks, joinIdx,
                   errors, unit, runVars, setterVars, inflight>>

\* get_params up to its first await: fs::create_dir_all(param_dir(data_dir))
GetParamsCreateDir ==
    /\ mainPc = "start"
    /\ LET c == CreateDirAll(dirs, ParamDir(dirEnv, DataDir), canCreate) IN
         /\ dirs' = c.dirs
         /\ IF c.ok THEN mainPc' = "parse" /\ result' = result
            ELSE mainPc' = "returned" /\ result' = "DirError"
    /\ mainDir' = ParamDir(dirEnv, DataDir)
    /\ UNCHANGED <<envVars, files, tasks, joinIdx, errors, unit, runVars, setterVars, inflight>>

\* get_params from the parse of the manifest to the first t.await: the
\* filter, one spawned task per selected entry; with no task to await the
\* join loop is empty and the function returns
GetParamsSpawn ==
    /\ mainPc = "parse"
    /\ IF ~paramJson.ok
       THEN /\ mainPc' = "returned"
            /\ result' = "ParseError"
            /\ UNCHANGED <<tasks, unit, errors, inflight>>
       ELSE \E order \in Orders(Selected(paramJson.map, storageSize)) :
            /\ tasks' = order
            /\ unit' = [n \in Names |->
                          IF \E i \in 1..Len(order) : order[i] = n
                          THEN [IdleUnit EXCEPT !.pc = "spawned"] ELSE unit[n]]
            /\ errors' = <<>>
            /\ IF order = <<>>
               THEN mainPc' = "returned" /\ result' = Finish(<<>>)
               ELSE mainPc' = "joining" /\ result' = result
    /\ joinIdx' = 1
    /\ UNCHANGED <<envVars, dirs, files, runVars, mainDir, setterVars, inflight>>

\* for t in tasks { if let Err(err) = t.await { errors.push(err) } } and,
\* after the last task, the aggregation
GetParamsJoin ==
    /\ mainPc = "joining"
    /\ unit[tasks[joinIdx]].pc \in {"ok", "err"}
    /\ LET r == TaskJoin(tasks[joinIdx], unit[tasks[joinIdx]])
           errs == Collect(errors, r)
       IN
         /\ errors' = errs
         /\ IF LoopEnds(joinIdx, Len(tasks), r)
            THEN mainPc' = "returned" /\ result' = Finish(errs)
            ELSE mainPc' = "joining" /\ result' = result
    /\ joinIdx' = joinIdx + 1
    /\ UNCHANGED <<envVars, dirs, files, tasks, unit, runVars, mainDir, setterVars, inflight>>

\* fetch_verify_params up to the result of the first check_file
UnitCheck(n) ==
    /\ unit[n].pc = "spawned"
    /\ LET d == ParamDir(dirEnv, DataDir)
           c == CheckFile(trustEnv, files[d][n], paramJson.map[n])
       IN unit' = [unit EXCEPT ![n].dir = d, ![n].check = c, ![n].checks = 1,
                               ![n].pc = IF c.ok THEN "ok" ELSE "fetching"]
    /\ UNCHANGED <<envVars, dirs, files, mainVars, runVars, setterVars, inflight>>

\* the retry loop of fetch_params calls fetch_params_inner, which runs to
\* the response: one request; on a failure the backoff decides
UnitRequest(n) ==
    /\ unit[n].pc = "fetching"
    /\ \E o \in RequestOutcomes, e \in Later(unit[n].elapsed) :
         LET r == FetchParamsInnerRequest(files[unit[n].dir][n], o)
             u == [unit[n] EXCEPT !.reqs = Tick(@)]
         IN /\ files' = [files EXCEPT ![unit[n].dir][n] = r.file]
            /\ unit' = [unit EXCEPT ![n] =
                 IF r.ok THEN [u EXCEPT !.pc = "requested", !.lastErr = "none",
                                        !.declared = r.len]
                 ELSE Retry(u, r.kind, e)]
    /\ UNCHANGED <<envVars, dirs, mainVars, runVars, setterVars, inflight>>

\* fetch_params_inner from the response to the end of File::create
UnitCreate(n) ==
    /\ unit[n].pc = "requested"
    /\ \E o \in CreateOutcomes, e \in Later(unit[n].elapsed) :
         LET r == FetchParamsInnerCreate(files[unit[n].dir][n], unit[n].dir \in dirs, o)
         IN /\ files' = [files EXCEPT ![unit[n].dir][n] = r.file]
            /\ unit' = [unit EXCEPT ![n] =
                 IF r.ok THEN [@ EXCEPT !.pc = "created"] ELSE Retry(@, r.kind, e)]
    /\ UNCHANGED <<envVars, dirs, mainVars, runVars, setterVars, inflight>>

\* tokio::io::copy under way: bytes of the body arrive and are written, and
\* the copy waits for more
UnitCopyPending(n) ==
    /\ unit[n].pc = "created"
    /\ \E c \in CopyPending(files[unit[n].dir][n], unit[n].written) :
         /\ files' = [files EXCEPT ![unit[n].dir][n] = c.file]
         /\ unit' = [unit EXCEPT ![n].written = c.written]
    /\ UNCHANGED <<envVars, dirs, mainVars, runVars, setterVars, inflight>>

\* fetch_params_inner from the end of the copy to its return: the body ends
\* or the copy fails, the metadata and the length check; a copy that ends
\* with a read error may leave a write behind
UnitCopy(n) ==
    /\ unit[n].pc = "created"
    /\ \E o \in CopyOutcomes, e \in Later(unit[n].elapsed) :
         LET r == FetchParamsInnerCopy(files[unit[n].dir][n], unit[n].declared, o)
         IN /\ files' = [files EXCEPT ![unit[n].dir][n] = r.file]
            /\ unit' = [unit EXCEPT ![n] =
                 IF r.ok THEN [@ EXCEPT !.pc = "fetched"] ELSE Retry(@, r.kind, e)]
            /\ \/ inflight' = inflight
               \/ /\ o = "read"
                  /\ \E w \in Abandoned(unit[n].dir, unit[n].written) :
                       inflight' = [inflight EXCEPT ![n] = @ (+) SetToBag({w})]
    /\ UNCHANGED <<envVars, dirs, mainVars, runVars, setterVars>>

\* the blocking thread completes a write that a failed copy left behind:
\* during the backoff, during a later attempt, after the unit or after
\* get_params has ended.  Each handle has its own thread, so the writes of
\* different attempts land in any order
LateWrite(n) ==
    /\ \E w \in BagToSet(inflight[n]) :
         /\ files' = [files EXCEPT ![w.dir][n] = WriteAt(@, w.at, w.data)]
         /\ inflight' = [inflight EXCEPT ![n] = @ (-) SetToBag({w})]
    /\ UNCHANGED <<envVars, dirs, mainVars, unit, runVars, setterVars>>

\* a unit that fetches again after a mismatch
AfterRecheckRetry(c) == IF c.ok THEN "ok" ELSE "fetching"

\* the map_err of the second check_file: its result is the unit's
AfterRecheck(c) == IF c.ok THEN "ok" ELSE "err"

\* the file the second check rejected (TODO remove invalid file): kept
InvalidFile(file) == file

\* fetch_verify_params after fetch_params returned Ok: the second check_file
UnitRecheck(n) ==
    /\ unit[n].pc = "fetched"
    /\ LET d == unit[n].dir
           c == CheckFile(trustEnv, files[d][n], paramJson.map[n])
       IN /\ unit' = [unit EXCEPT ![n].check = c, ![n].checks = 2,
                                  ![n].pc = AfterRecheck(c), ![n].written = 0,
                                  ![n].cause = IF c.ok THEN "none" ELSE "checksum"]
          /\ files' = [files EXCEPT ![d][n] = IF c.ok THEN @ ELSE InvalidFile(@)]
    /\ UNCHANGED <<envVars, dirs, mainVars, runVars, setterVars, inflight>>

UnitsOk == \A i \in 1..Len(tasks) : unit[tasks[i]].pc = "ok"

\* the caller invokes get_params again, with the same arguments, after the
\* invocation before has returned
GetParamsAgain ==
    /\ mainPc = "returned"
    /\ run < MaxRuns
    /\ run' = run + 1
    /\ prev' = [result |-> result, unitsOk |-> result \in {"Ok", "Aggregated"} /\ UnitsOk,
                causes |-> [n \in Names |-> unit[n].cause]]
    /\ filesAtStart' = files
    /\ mainPc' = "start"
    /\ tasks' = <<>>
    /\ joinIdx' = 1
    /\ errors' = <<>>
    /\ result' = "none"
    /\ unit' = [n \in Names |-> IdleUnit]
    /\ mainDir' = NoDir
    /\ UNCHANGED <<envVars, dirs, files, setterVars, inflight>>

Next ==
    \/ GetParamsCreateDir
    \/ GetParamsSpawn
    \/ GetParamsJoin
    \/ \E n \in Names : UnitCheck(n)
    \/ \E n \in Names : UnitRequest(n)
    \/ \E n \in Names : UnitCreate(n)
    \/ \E n \in Names : UnitCopyPending(n)
    \/ \E n \in Names : UnitCopy(n)
    \/ \E n \in Names : UnitRecheck(n)
    \/ \E n \in Names : LateWrite(n)

\* one invocation of get_params, the cache-directory override unset when the
\* process starts
Spec == Init /\ [][Next]_vars

\* successive invocations of get_params by one caller with a policy that
\* selects one entry of the manifest
InitTwice == Init /\ storageSize = Size(1024)

NextTwice == Next \/ GetParamsAgain

SpecTwice == InitTwice /\ [][NextTwice]_vars

\* the filter of get_params on every manifest over Names: get_params up to
\* the spawn of the tasks
SectorSizes == {0, 512, 1024}

Manifests ==
    UNION {{[n \in S |-> Entry(n, sz[n])] : sz \in [S -> SectorSizes]} : S \in SUBSET Names}

InitFilter ==
    /\ dirEnv = None
    /\ trustEnv = None
    /\ paramJson \in {Malformed} \cup {Parsed(m) : m \in Manifests}
    /\ storageSize \in Policies
    /\ dirs = {}
    /\ canCreate \in BOOLEAN
    /\ files = NoFiles
    /\ envLog = NoLog
    /\ InitCommon

NextFilter == GetParamsCreateDir \/ GetParamsSpawn

SpecFilter == InitFilter /\ [][NextFilter]_vars

\* one invocation of get_params for one entry and calls of
\* set_proofs_parameter_cache_dir_env by the same process, the override set
\* or not when the process starts; the calls are traced
InitEnv ==
    /\ dirEnv \in {None, Some(OverrideDir), Some(NonUnicode)}
    /\ trustEnv = None
    /\ paramJson = Parsed(ExampleManifest)
    /\ storageSize = Size(1024)
    /\ dirs \in {{}, {ParamDir(dirEnv, DataDir)}}
    /\ canCreate = TRUE
    /\ \E f \in InitFiles(AVk) :
          /\ dirs = {} => f = Absent
          /\ files = [NoFiles EXCEPT ![ParamDir(dirEnv, DataDir)][AVk] = f]
    /\ envLog = [on |-> TRUE, init |-> dirEnv, vals |-> <<>>]
    /\ InitCommon

NextEnv ==
    \/ Next
    \/ SetProofsParameterCacheDirEnvRead
    \/ SetProofsParameterCacheDirEnvWrite

SpecEnv == InitEnv /\ [][NextEnv]_vars

\* another thread of the process writes or removes
\* FIL_PROOFS_PARAMETER_CACHE (std::env::set_var, remove_var)
ExternalSetEnv ==
    /\ \E v \in {None, Some(OverrideDir), Some(DefaultDir), Some(NonUnicode)} :
          v # dirEnv /\ dirEnv' = v
    /\ UNCHANGED <<trustEnv, dirs, files, canCreate, paramJson, storageSize,
                   mainVars, unit, runVars, setterVars, inflight>>

\* one invocation of get_params for one entry while the variable is written
\* by others
InitRace ==
    /\ dirEnv \in {None, Some(OverrideDir)}
    /\ trustEnv = None
    /\ paramJson = Parsed(ExampleManifest)
    /\ storageSize = Size(1024)
    /\ dirs \in SUBSET Dirs
    /\ canCreate = TRUE
    /\ \E f \in InitFiles(AVk) :
          /\ ParamDir(dirEnv, DataDir) \notin dirs => f = Absent
          /\ files = [NoFiles EXCEPT ![ParamDir(dirEnv, DataDir)][AVk] = f]
    /\ envLog = NoLog
    /\ InitCommon

NextRace == NextEnv \/ ExternalSetEnv

SpecRace == InitRace /\ [][NextRace]_vars

\* an attempt of fetch_params_inner that never completes: the client has no
\* timeout (set_timeout(None)) and retry() acts only between attempts.  The
\* request was sent and no response comes, or the response came, File::create
\* truncated the target and the body stops coming during the copy, the bytes
\* that arrived written
UnitStall(n) ==
    /\ unit[n].pc \in {"fetching", "created"}
    /\ unit' = [unit EXCEPT ![n].pc = "stalled",
                            ![n].reqs = IF unit[n].pc = "fetching" THEN Tick(@) ELSE @,
                            ![n].lastErr = "none"]
    /\ UNCHANGED <<envVars, dirs, files, mainVars, runVars, setterVars, inflight>>

\* one invocation of get_params on a manifest that parses, every task polled
\* by the runtime until it ends
InitLive == Init /\ paramJson.ok /\ storageSize = Size(1024)

NextLive == Next \/ \E n \in Names : UnitStall(n)

SpecLive ==
    /\ InitLive
    /\ [][NextLive]_vars
    /\ WF_vars(GetParamsCreateDir)
    /\ WF_vars(GetParamsSpawn)
    /\ WF_vars(GetParamsJoin)
    /\ \A n \in Names : /\ WF_vars(UnitCheck(n))
                         /\ WF_vars(UnitRequest(n))
                         /\ WF_vars(UnitCreate(n))
                         /\ WF_vars(UnitCopy(n))
                         /\ WF_vars(UnitRecheck(n))

\* ------------------------------------------------------ vocabulary ------
NetRequests == unit[AVk].reqs + unit[BParams].reqs + unit[CParams].reqs


\* the cache directory of the invocation
CacheDir == ParamDir(dirEnv, DataDir)

TaskSet == {tasks[i] : i \in 1..Len(tasks)}

Returned == mainPc = "returned"

\* get_params returned from its final if/else
Joined == Returned /\ result \in {"Ok", "Aggregated"}

Terminal(n) == unit[n].pc \in {"ok", "err"}

FailedUnits == {n \in TaskSet : unit[n].pc = "err"}

\* the entries the aggregated error describes
Reported == {errors[i].name : i \in 1..Len(errors)}

\* the file is present and its truncated digest is the manifest's
Matches(file, n) == file.present /\ StrSum(file.data) = paramJson.map[n].digest

MatchesAtStart(n) == Matches(filesAtStart[CacheDir][n], n)

Bypass == trustEnv = Some("1")

\* ----------------------------------------------------------- claims -----

\* C1: get_params returns Ok if and only if no spawned unit ended in failure,
\* and otherwise one aggregated error that describes every failed unit and no
\* succeeded one.  The code pushes only the JoinError of t.await, so the
\* statement fails.
ClaimC1 ==
    Joined => /\ (result = "Ok" <=> FailedUnits = {})
              /\ Reported = FailedUnits

\* C2: a selected entry whose file is present with the manifest's digest when
\* get_params starts makes no network request, keeps its file untouched and
\* never leaves the path spawned -> ok; when this holds for every selected
\* entry (there is one), get_params returns Ok after zero network requests.
ThmC2 ==
    /\ \A n \in TaskSet :
         MatchesAtStart(n) =>
            /\ unit[n].pc \in {"spawned", "ok"}
            /\ unit[n].reqs = 0
            /\ files[CacheDir][n] = filesAtStart[CacheDir][n]
    /\ ( /\ Returned
         /\ paramJson.ok
         /\ Selected(paramJson.map, storageSize) # {}
         /\ \A n \in Selected(paramJson.map, storageSize) : MatchesAtStart(n) )
       => (result = "Ok" /\ NetRequests = 0 /\ UnitsOk)

WitC2 ==
    /\ Joined
    /\ Len(tasks) = 2
    /\ ~Bypass
    /\ \A n \in TaskSet : MatchesAtStart(n) /\ unit[n].pc = "ok" /\ unit[n].check.hashed

\* C3: a selected entry whose file is present with another digest when
\* get_params starts is fetched, and when get_params returns its file has the
\* manifest's digest or the result reports a failure for it.  Stated for the
\* runs without the trust bypass; the failed unit is not reported.
ClaimC3 ==
    \A n \in TaskSet :
        (~Bypass /\ filesAtStart[CacheDir][n].present /\ ~MatchesAtStart(n)) =>
            /\ unit[n].pc # "spawned" => (unit[n].pc = "fetching" \/ unit[n].reqs > 0)
            /\ Joined => \/ Matches(files[CacheDir][n], n)
                         \/ (result = "Aggregated" /\ n \in Reported)

\* C4 as claimed: every unit that ended in success has its file in the cache
\* directory and computed a matching digest at its last check.
ClaimC4 ==
    \A n \in Names :
        unit[n].pc = "ok" =>
            /\ unit[n].dir = CacheDir
            /\ unit[n].check.hashed
            /\ Matches(files[CacheDir][n], n)

\* C4 as amended: unless TRUST_PARAMS is "1", a unit ends in success only in
\* a step of check_file that finds its file, named as the manifest key, in
\* the cache directory, computes its digest and finds it equal to the
\* manifest's, and that leaves every file as it is.
ThmC4 ==
    [][\A n \in Names :
         (unit'[n].pc = "ok" /\ ~Bypass) =>
            /\ unit'[n].dir = CacheDir
            /\ unit'[n].check.hashed
            /\ unit'[n].check.ok
            /\ unit[n].pc # "ok" =>
                  /\ Matches(files[CacheDir][n], n)
                  /\ files' = files]_vars

\* a unit that succeeded through a fetch of a file that was present with
\* another digest
WitC4 ==
    \E n \in TaskSet :
        /\ unit[n].pc = "ok"
        /\ unit[n].checks = 2
        /\ ~Bypass
        /\ filesAtStart[CacheDir][n].present
        /\ ~MatchesAtStart(n)

\* C5: after an invocation that returned Ok, a second invocation with the same
\* arguments and an untouched cache directory returns Ok and makes no network
\* request.  The first invocation returns Ok with a failed unit, so the second
\* one fetches.
ClaimC5 ==
    (run > 1 /\ prev.result = "Ok") =>
        /\ NetRequests = 0
        /\ Returned => result = "Ok"

\* the name ends with ".params", character by character
IsFullParams(n) ==
    /\ Len(n) >= 7
    /\ \A i \in 1..7 : n[Len(n) - 7 + i] = DotParamsSuffix[i]

\* C6: under Size(n) the tasks spawned are those of every entry that is not
\* of the full-parameter class and of the full-parameter entries of sector
\* size n; on the manifest {a.vk: 0, b.params: 512}, Size(512) spawns both
\* and Size(1024) only a.vk.
ThmC6 ==
    (mainPc = "joining" \/ Joined) /\ storageSize.opt = "Size" =>
        /\ \A n \in DOMAIN paramJson.map :
             n \in TaskSet <=>
                (~IsFullParams(n) \/ paramJson.map[n].sector_size = storageSize.size)
        /\ TaskSet \subseteq DOMAIN paramJson.map
        /\ (paramJson.map = ExampleManifest /\ storageSize = Size(512))
              => TaskSet = {AVk, BParams}
        /\ (paramJson.map = ExampleManifest /\ storageSize = Size(1024))
              => TaskSet = {AVk}

WitC6 ==
    /\ mainPc = "joining"
    /\ paramJson.map = ExampleManifest
    /\ storageSize = Size(1024)
    /\ TaskSet = {AVk}

\* C7: a check_file reports success without computing the digest exactly when
\* TRUST_PARAMS is "1", and exactly then it logs the warning; otherwise a
\* success rests on a computed digest.  With the bypass, get_params returns Ok
\* with every unit succeeded, no request made and no file touched, also for a
\* file of another digest.
ThmC7 ==
    /\ \A n \in Names :
         unit[n].checks > 0 =>
            /\ (unit[n].check.ok /\ ~unit[n].check.hashed) <=> Bypass
            /\ unit[n].check.warned <=> Bypass
            /\ (~Bypass /\ unit[n].check.kind # "NotFound") => unit[n].check.hashed
    /\ (Bypass /\ Joined) =>
         /\ result = "Ok"
         /\ UnitsOk
         /\ NetRequests = 0
         /\ files = filesAtStart

WitC7 ==
    /\ Bypass
    /\ Joined
    /\ AVk \in TaskSet
    /\ files[CacheDir][AVk] = File(Bad(AVk))
    /\ unit[AVk].pc = "ok"
    /\ unit[AVk].check.warned

\* C8: when get_params has returned from its join loop, every spawned unit
\* has ended, in success or in failure: no failure makes it return before a
\* sibling has ended.
ThmC8 ==
    Joined => /\ \A n \in TaskSet : Terminal(n)
              /\ joinIdx = Len(tasks) + 1

\* the task awaited first failed and its sibling succeeded
WitC8 ==
    /\ Joined
    /\ Len(tasks) = 2
    /\ unit[tasks[1]].pc = "err"
    /\ unit[tasks[2]].pc = "ok"
    /\ unit[tasks[2]].reqs > 0

\* C9: a cache directory that cannot be created or a malformed manifest makes
\* get_params return that error with no task spawned, no check_file run, no
\* request made and no file touched; get_params returns one of the two
\* errors only then.
ThmC9 ==
    /\ result \in {"DirError", "ParseError"} =>
         /\ Returned
         /\ tasks = <<>>
         /\ \A n \in Names : unit[n].pc = "idle" /\ unit[n].checks = 0 /\ unit[n].reqs = 0
         /\ files = filesAtStart
    /\ (Returned /\ CacheDir \notin dirs) => result = "DirError"
    /\ (Returned /\ CacheDir \in dirs /\ ~paramJson.ok) => result = "ParseError"
    /\ (Returned /\ CacheDir \in dirs /\ paramJson.ok) => result \in {"Ok", "Aggregated"}

WitC9 ==
    /\ result = "ParseError"
    /\ CacheDir \in dirs
    /\ filesAtStart[CacheDir][AVk] = Absent

\* C10: only the failures of the transport and of the length check are
\* retried: the error the retry loop holds while it goes on is never a
\* failure of the local filesystem (File::create, the write of the copy,
\* fs::metadata).  Every error is converted to a transient one, so the
\* statement fails.
ClaimC10 ==
    \A n \in Names : unit[n].pc = "fetching" => unit[n].lastErr \notin FsKinds

\* the file of a unit, in the directory the unit resolved
UnitFile(n) == files[unit[n].dir][n]

\* C11: fetch_params returns Ok only after an attempt that wrote as many
\* bytes as the response declared: no attempt that wrote fewer is accepted.
\* The length check reads the size of the file, which a write left behind
\* by an earlier failed attempt can have made longer, so the statement
\* fails.
ClaimC11 ==
    \A n \in Names :
        (unit[n].pc = "fetched" /\ unit[n].declared # None) =>
            ~(unit[n].written < unit[n].declared[1])

\* C14: an attempt fails on the length check exactly when a length is
\* declared and the size of the written file differs from it, so the error
\* the loop retries is a length failure only with a declared length.  The
\* code compares Some(size) with the Option and fails without a declared
\* length.
ClaimC14 ==
    \A n \in Names :
        (unit[n].pc = "fetching" /\ unit[n].lastErr = "length") =>
            /\ unit[n].declared # None
            /\ unit[n].declared # Some(Len(UnitFile(n).data))

\* the directory an environment names: the variable's value when it is set
\* to a Unicode string, otherwise the subdirectory of the data directory
Resolved(env) ==
    IF env = None \/ env = Some(<<"ca?">>) THEN <<"data", "filecoin-proof-parameters">>
    ELSE env[1]

\* C12: every call of set_proofs_parameter_cache_dir_env leaves the variable
\* as the first call did, and the directory it names is the override
\* whenever the variable was set when the process started.  An override that
\* is not valid Unicode is ignored and overwritten with the default path, so
\* the statement fails.
ClaimC12 ==
    /\ \A i \in 1..Len(envLog.vals) : envLog.vals[i] = envLog.vals[1]
    /\ (envLog.init # None /\ envLog.vals # <<>>) => envLog.vals[1] = envLog.init

\* C16 as claimed: from the start of an invocation on, the variable is set to
\* the directory get_params resolved.
ClaimC16 ==
    mainPc # "start" => dirEnv = Some(mainDir)

\* C16 as amended: get_params never writes FIL_PROOFS_PARAMETER_CACHE: while
\* set_proofs_parameter_cache_dir_env has not been called the variable is as
\* the process found it, unset included; once it was called the variable
\* names the directory in which get_params creates the cache and its units
\* check and fetch their files, and a variable that was set is never
\* cleared.
ThmC16 ==
    envLog.on =>
        /\ envLog.vals = <<>> => dirEnv = envLog.init
        /\ envLog.vals # <<>> => dirEnv = Some(Resolved(envLog.init))
        /\ mainPc # "start" => mainDir = Resolved(envLog.init)
        /\ \A n \in Names : unit[n].checks > 0 => unit[n].dir = Resolved(envLog.init)
        /\ (envLog.init # None \/ envLog.vals # <<>>) => dirEnv # None

\* get_params returned after a fetch and the variable is still unset
WitC16 ==
    /\ envLog.on
    /\ Joined
    /\ envLog.vals = <<>>
    /\ dirEnv = None
    /\ unit[AVk].pc = "ok"
    /\ unit[AVk].reqs > 0
    /\ files[DefaultDir][AVk] = File(Good(AVk))

\* C13: within one invocation the unit of an entry moves only
\* spawned -> {ok, fetching}, inside fetch_params from the request to the
\* created file to the end of the attempt and, after a failed attempt, back
\* to the request or to err, fetched -> {ok, err}: the first check_file comes
\* before any request, no check_file runs inside fetch_params, the second
\* check_file only after fetch_params returned Ok and with no further
\* request, and a unit that is ok or err does not change until the next
\* invocation.
ThmC13 ==
    [][\A n \in Names :
         IF run' # run THEN unit'[n].pc = "idle"
         ELSE /\ unit[n].pc = "idle" => unit'[n].pc \in {"idle", "spawned"}
              /\ unit[n].pc = "spawned" =>
                    /\ unit'[n].pc \in {"spawned", "ok", "fetching"}
                    /\ unit'[n].reqs = 0
                    /\ unit'[n].pc # "spawned" => unit'[n].checks = 1
              /\ unit[n].pc = "fetching" =>
                    /\ unit'[n].pc \in {"fetching", "requested", "err"}
                    /\ unit'[n].checks = 1
              /\ unit[n].pc = "requested" =>
                    /\ unit'[n].pc \in {"requested", "created", "fetching", "err"}
                    /\ unit'[n].reqs = unit[n].reqs
                    /\ unit'[n].checks = 1
              /\ unit[n].pc = "created" =>
                    /\ unit'[n].pc \in {"created", "fetched", "fetching", "err"}
                    /\ unit'[n].reqs = unit[n].reqs
                    /\ unit'[n].checks = 1
              /\ unit[n].pc = "fetched" =>
                    /\ unit'[n].pc \in {"fetched", "ok", "err"}
                    /\ unit'[n].reqs = unit[n].reqs
                    /\ unit'[n].pc # "fetched" => unit'[n].checks = 2
              /\ unit[n].pc \in {"ok", "err"} => unit'[n] = unit[n]]_vars

\* a unit that failed at the second check_file, after one fetch_params
WitC13 ==
    \E n \in Names :
        /\ unit[n].pc = "err"
        /\ unit[n].cause = "checksum"
        /\ unit[n].checks = 2
        /\ unit[n].reqs > 0

\* C15: every unit checks and writes its file in the directory get_params
\* resolved and created, and no file of another directory is touched, also
\* when the variable is written in between.  Each unit resolves param_dir
\* again, so the statement fails.
ClaimC15 ==
    /\ \A n \in TaskSet : unit[n].checks > 0 => unit[n].dir = mainDir
    /\ mainPc # "start" => \A d \in Dirs \ {mainDir} : files[d] = filesAtStart[d]

\* C18: a unit that failed at the second check_file is in err with that
\* cause and its file stays on disk as the attempt left it, with another
\* digest than the manifest's and the length the response declared; the next
\* invocation starts with that file, its first check_file computes the
\* digest and fails with a mismatch, and the unit does not end before it has
\* requested the file again.  A write left behind by an earlier failed
\* attempt can change the file after the unit has ended, so the statement
\* fails.
ClaimC18 ==
    \A n \in Names :
        /\ unit[n].cause = "checksum" =>
              /\ unit[n].pc = "err"
              /\ UnitFile(n).present
              /\ ~Matches(UnitFile(n), n)
              /\ unit[n].declared = Some(Len(UnitFile(n).data))
        /\ (run > 1 /\ prev.causes[n] = "checksum") =>
              /\ filesAtStart[CacheDir][n].present
              /\ ~MatchesAtStart(n)
              /\ unit[n].checks = 1 =>
                    /\ unit[n].check.hashed
                    /\ unit[n].check.kind = "Other"
                    /\ unit[n].pc # "ok"
              /\ Terminal(n) => unit[n].reqs > 0

\* C19: Keys spawns exactly the entries whose name does not end with the
\* full-parameter suffix, by the suffix test of Size: under Size(n) every
\* entry Keys selects is spawned and every other spawned entry has sector
\* size n, and under Keys the entries spawned are those Size spawns whatever
\* their size.  Keys tests "params" and Size ".params", so the statement
\* fails.
ClaimC19 ==
    (mainPc = "joining" \/ Joined) =>
        /\ storageSize.opt = "Size" =>
              /\ Selected(paramJson.map, Keys) \subseteq TaskSet
              /\ \A n \in TaskSet \ Selected(paramJson.map, Keys) :
                    paramJson.map[n].sector_size = storageSize.size
        /\ storageSize.opt = "Keys" =>
              TaskSet = {n \in DOMAIN paramJson.map : ~IsFullParams(n)}

\* the step is one of fetch_params_inner for n, from the pc given
StepFrom(n, pc) == unit[n].pc = pc /\ unit'[n] # unit[n]

\* C20 as claimed: the request of an attempt, failed or not, leaves every
\* file as it was, and every attempt that received a success status
\* truncates the target next.
ClaimC20 ==
    [][\A n \in Names :
         /\ StepFrom(n, "fetching") => files' = files
         /\ StepFrom(n, "requested") =>
               files'[unit[n].dir][n] = File(<<>>)]_vars

\* C20 as amended: the request of an attempt, failed or not, leaves every
\* file as it was; after a success status, File::create either fails and
\* leaves every file as it was, or truncates the target and leaves every
\* other file as it was.
ThmC20 ==
    [][\A n \in Names :
         /\ StepFrom(n, "fetching") => files' = files
         /\ StepFrom(n, "requested") =>
               IF unit'[n].pc = "created"
               THEN files' = [files EXCEPT ![unit[n].dir][n] = File(<<>>)]
               ELSE files' = files]_vars

\* the request for a file that was present with another digest failed, and
\* the file is as it was
WitC20 ==
    \E n \in Names :
        /\ unit[n].pc = "fetching"
        /\ unit[n].lastErr \in {"request", "status"}
        /\ unit[n].reqs = 1
        /\ UnitFile(n) = File(Bad(n))
        /\ filesAtStart[unit[n].dir][n] = File(Bad(n))

\* C17: every spawned unit eventually is ok or err, and an invocation that
\* started eventually returns.  An attempt that hangs is never interrupted,
\* so the statement fails.
ClaimC17 ==
    /\ \A n \in Names : (unit[n].pc = "spawned") ~> Terminal(n)
    /\ (mainPc = "start") ~> Returned

====
